---- MODULE Spec2Model ----
(***************************************************************************)
(* Model of the Farm House voucher bot (src/bot.py): a three-step          *)
(* ConversationHandler (name, voucher type, amount) whose last step         *)
(* appends one row to a Google Sheets worksheet.                            *)
(*                                                                          *)
(* Texts are sequences of one-character strings, so that command            *)
(* recognition and float() are computed from the characters.                *)
(***************************************************************************)
EXTENDS Integers, Sequences, FiniteSets, TLC

(***************************************************************************)
(* Bounds of the model                                                      *)
(***************************************************************************)
\* conversations the model lets the users start
MaxStarts == 2
\* runs of the module-level sheet set-up
MaxBoots == 2
\* rows the worksheet holds before the first run
MaxStored == 2

(***************************************************************************)
(* Conversation states (bot.py line 27) and ConversationHandler.END         *)
(***************************************************************************)
NAME == 0
VOUCHER_TYPE == 1
VOUCHER_AMOUNT == 2
END == -1

Collecting == {NAME, VOUCHER_TYPE, VOUCHER_AMOUNT}
ConvStates == Collecting \cup {END}

(***************************************************************************)
(* Users, chats and conversation keys.  ConversationHandler is built with   *)
(* its defaults per_chat = per_user = True, so a conversation is keyed by   *)
(* (chat, user), while context.user_data is keyed by the user alone.        *)
(***************************************************************************)
Users == {"u1", "u2"}
Chats == {"c1", "c2"}
Sessions == Chats \X Users
\* who talks to the bot: one user in two chats, or two users in one chat
Deployments == {{<<"c1", "u1">>, <<"c2", "u1">>}, {<<"c1", "u1">>, <<"c1", "u2">>}}
\* one user_data shared by all users
MutUserOfShared(s) == "u1"

UserOf(s) == s[2]
ChatOf(s) == s[1]

(***************************************************************************)
(* Texts                                                                    *)
(***************************************************************************)
DigitSeq == <<"0", "1", "2", "3", "4", "5", "6", "7", "8", "9">>
Digits == {DigitSeq[i] : i \in 1..10}
DigitVal(c) == (CHOOSE i \in 1..10 : DigitSeq[i] = c) - 1

UpperSeq == <<"A", "B", "C", "D", "E", "F", "G", "H", "I", "J", "K", "L", "M",
              "N", "O", "P", "Q", "R", "S", "T", "U", "V", "W", "X", "Y", "Z">>
LowerSeq == <<"a", "b", "c", "d", "e", "f", "g", "h", "i", "j", "k", "l", "m",
              "n", "o", "p", "q", "r", "s", "t", "u", "v", "w", "x", "y", "z">>
Letters == {UpperSeq[i] : i \in 1..26} \cup {LowerSeq[i] : i \in 1..26}
Whitespace == {" ", "\t", "\n", "\r"}

\* str.lower() on one character
LowerChar(c) ==
    IF \E i \in 1..26 : UpperSeq[i] = c
    THEN LowerSeq[CHOOSE i \in 1..26 : UpperSeq[i] = c]
    ELSE c
Lower(s) == [i \in 1..Len(s) |-> LowerChar(s[i])]

RECURSIVE LStrip(_)
LStrip(s) == IF s # <<>> /\ Head(s) \in Whitespace THEN LStrip(Tail(s)) ELSE s
RECURSIVE RStrip(_)
RStrip(s) ==
    IF s # <<>> /\ s[Len(s)] \in Whitespace
    THEN RStrip(SubSeq(s, 1, Len(s) - 1))
    ELSE s
Strip(s) == RStrip(LStrip(s))

(***************************************************************************)
(* float(text), bot.py line 121.  The result is either ValueError or a     *)
(* value: nan, +-inf, or the finite decimal (-1)^neg * num / den with den   *)
(* a power of ten and the fraction reduced (rounding to binary64 is not     *)
(* modelled).                                                               *)
(***************************************************************************)
ValueError == [kind |-> "ValueError"]
NaN == [kind |-> "nan"]
Inf(neg) == [kind |-> "inf", neg |-> neg]
Finite(neg, num, den) == [kind |-> "finite", neg |-> neg, num |-> num, den |-> den]

\* digitpart ::= digit (["_"] digit)*
IsDigitPart(s) ==
    /\ Len(s) > 0
    /\ \A i \in 1..Len(s) :
          \/ s[i] \in Digits
          \/ /\ s[i] = "_"
             /\ i > 1 /\ i < Len(s)
             /\ s[i - 1] \in Digits
             /\ s[i + 1] \in Digits
IsUnderscore(c) == c = "_"
NotUnderscore(c) == ~IsUnderscore(c)
DigitsOf(s) == SelectSeq(s, NotUnderscore)

RECURSIVE IntVal(_)
IntVal(ds) ==
    IF ds = <<>> THEN 0
    ELSE IntVal(SubSeq(ds, 1, Len(ds) - 1)) * 10 + DigitVal(ds[Len(ds)])

RECURSIVE Pow10(_)
Pow10(n) == IF n <= 0 THEN 1 ELSE 10 * Pow10(n - 1)

\* reduce num/den by the common powers of ten
RECURSIVE Reduce(_, _, _)
Reduce(neg, num, den) ==
    IF num = 0 THEN Finite(neg, 0, 1)
    ELSE IF den > 1 /\ num % 10 = 0 THEN Reduce(neg, num \div 10, den \div 10)
    ELSE Finite(neg, num, den)

\* index of the first element of s in set cs, 0 when there is none
FirstIn(s, cs) ==
    IF \E i \in 1..Len(s) : s[i] \in cs
    THEN CHOOSE i \in 1..Len(s) : s[i] \in cs /\ \A j \in 1..(i - 1) : s[j] \notin cs
    ELSE 0

\* the unsigned decimal literal: [digitpart] "." digitpart | digitpart ["."],
\* then an optional exponent
ParseDecimal(neg, b) ==
    LET e    == FirstIn(b, {"e", "E"})
        m    == IF e = 0 THEN b ELSE SubSeq(b, 1, e - 1)
        x    == IF e = 0 THEN <<>> ELSE SubSeq(b, e + 1, Len(b))
        xneg == x # <<>> /\ x[1] = "-"
        xd   == IF x # <<>> /\ x[1] \in {"+", "-"} THEN Tail(x) ELSE x
        dot  == FirstIn(m, {"."})
        ip   == IF dot = 0 THEN m ELSE SubSeq(m, 1, dot - 1)
        fp   == IF dot = 0 THEN <<>> ELSE SubSeq(m, dot + 1, Len(m))
        okM  == /\ ip = <<>> \/ IsDigitPart(ip)
                /\ fp = <<>> \/ IsDigitPart(fp)
                /\ ip # <<>> \/ fp # <<>>
        okX  == e = 0 \/ IsDigitPart(xd)
        mant == IntVal(DigitsOf(ip) \o DigitsOf(fp))
        ex   == IF e = 0 THEN 0
                ELSE IF xneg THEN 0 - IntVal(DigitsOf(xd)) ELSE IntVal(DigitsOf(xd))
        p    == ex - Len(DigitsOf(fp))
    IN  IF ~(okM /\ okX) THEN ValueError
        ELSE IF p >= 0 THEN Reduce(neg, mant * Pow10(p), 1)
        ELSE Reduce(neg, mant, Pow10(0 - p))

\* float() that loses the sign of the number
MutFloatNoSign(text) ==
    LET s    == Strip(text)
        b    == IF s # <<>> /\ s[1] \in {"+", "-"} THEN Tail(s) ELSE s
    IN  IF Lower(b) \in {<<"i", "n", "f">>, <<"i", "n", "f", "i", "n", "i", "t", "y">>}
        THEN Inf(FALSE)
        ELSE IF Lower(b) = <<"n", "a", "n">> THEN NaN
        ELSE ParseDecimal(FALSE, b)

\* float() that returns 0.0 instead of raising ValueError
MutFloatLenient(text) ==
    LET s    == Strip(text)
        neg  == s # <<>> /\ s[1] = "-"
        b    == IF s # <<>> /\ s[1] \in {"+", "-"} THEN Tail(s) ELSE s
        v    == ParseDecimal(neg, b)
    IN  IF v = ValueError THEN Finite(FALSE, 0, 1) ELSE v

float(text) ==
    LET s    == Strip(text)
        neg  == s # <<>> /\ s[1] = "-"
        b    == IF s # <<>> /\ s[1] \in {"+", "-"} THEN Tail(s) ELSE s
    IN  IF Lower(b) \in {<<"i", "n", "f">>, <<"i", "n", "f", "i", "n", "i", "t", "y">>}
        THEN Inf(neg)
        ELSE IF Lower(b) = <<"n", "a", "n">> THEN NaN
        ELSE ParseDecimal(neg, b)

\* Python's  amount >= 0  on a float
GeZero(v) ==
    \/ v.kind = "inf" /\ ~v.neg
    \/ v.kind = "finite" /\ (~v.neg \/ v.num = 0)

(***************************************************************************)
(* Messages.  filters.COMMAND holds of a text that starts with a            *)
(* bot_command entity: "/" followed by a word character.  CommandHandler    *)
(* compares the lower-cased word up to the first space or "@".              *)
(***************************************************************************)
WordChars == Letters \cup Digits \cup {"_"}
IsCommand(m) == Len(m) >= 2 /\ m[1] = "/" /\ m[2] \in WordChars
IsText(m) == Len(m) > 0
CommandOf(m) ==
    LET stop == FirstIn(m, {" ", "@"})
        last == IF stop = 0 THEN Len(m) ELSE stop - 1
    IN  Lower(SubSeq(m, 2, last))
IsCmd(m, name) == IsCommand(m) /\ CommandOf(m) = name

StartCmd == <<"/", "s", "t", "a", "r", "t">>
CancelCmd == <<"/", "c", "a", "n", "c", "e", "l">>
HelpCmd == <<"/", "h", "e", "l", "p">>
OtherCmd == <<"/", "x">>
Commands == {StartCmd, CancelCmd, HelpCmd, OtherCmd}

\* free texts a user may type: a word, a positive decimal, a negative number
TextXbox == <<"X", "b", "o", "x">>
Text2p5 == <<"2", ".", "5">>
TextNeg5 == <<"-", "5">>
Texts == {TextXbox, Text2p5, TextNeg5}
\* the free texts typed in one run: a word and a number
Vocabularies == {{TextXbox, Text2p5}, {TextXbox, TextNeg5}}
Msgs == Commands \cup Texts

\* float() of every message of the model, computed once
FloatOf == [m \in Msgs |-> float(m)]

\* datetime.now().strftime(...), an input of the environment
Timestamps == {"2026-01-01 10:00:00"}

\* the reply keyboard of get_name, lines 86-95
voucher_types ==
    <<<<<<"A", "m", "a", "z", "o", "n">>, <<"e", "B", "a", "y">>, <<"T", "a", "r", "g", "e", "t">>>>,
      <<<<"W", "a", "l", "m", "a", "r", "t">>, <<"B", "e", "s", "t", " ", "B", "u", "y">>>>,
      <<<<"N", "i", "k", "e">>, <<"A", "d", "i", "d", "a", "s">>, <<"H", "&", "M">>>>,
      <<<<"S", "e", "p", "h", "o", "r", "a">>, <<"U", "l", "t", "a", " ", "B", "e", "a", "u", "t", "y">>>>,
      <<<<"S", "p", "o", "t", "i", "f", "y">>, <<"N", "e", "t", "f", "l", "i", "x">>, <<"X", "b", "o", "x">>>>,
      <<<<"P", "l", "a", "y", "S", "t", "a", "t", "i", "o", "n">>, <<"S", "t", "e", "a", "m">>>>,
      <<<<"S", "t", "a", "r", "b", "u", "c", "k", "s">>, <<"D", "o", "m", "i", "n", "o", "'", "s">>, <<"U", "b", "e", "r", " ", "E", "a", "t", "s">>>>,
      <<<<"O", "t", "h", "e", "r">>>>>>
Suggestions ==
    UNION {{voucher_types[i][j] : j \in 1..Len(voucher_types[i])} : i \in 1..Len(voucher_types)}

(***************************************************************************)
(* Dictionaries (context.user_data) as functions on the keys present        *)
(***************************************************************************)
EmptyDict == <<>>
Has(d, k) == k \in DOMAIN d
\* a store that lower-cases the text it keeps
MutPutLower(d, k, v) ==
    [x \in (DOMAIN d) \cup {k} |->
        IF x = k THEN (IF k = "amount" THEN v ELSE Lower(v)) ELSE d[x]]

Put(d, k, v) == [x \in (DOMAIN d) \cup {k} |-> IF x = k THEN v ELSE d[x]]
\* a clear() that leaves the dictionary as it is
MutClearKeeps(d) == d

\* user_data.clear()
Clear(d) == EmptyDict

(***************************************************************************)
(* The worksheet                                                            *)
(***************************************************************************)
Header == <<"Tanggal", "Nama", "Jenis Voucher", "Jumlah (Dollar)">>
InitialSheets == {<<>>, <<Header>>}
\* a row written by an earlier run of the bot
StoredRow == <<"2026-01-01 10:00:00", "Xbox", "Xbox", "2.5">>
\* what  client.open(...).sheet1  may hold: rows, some of them empty, the
\* last one not (a worksheet's values end at its last non-empty row)
StoredSheets ==
    {rs \in UNION {[1..n -> {<<>>, Header, StoredRow}] : n \in 0..MaxStored} :
        Len(rs) > 0 => rs[Len(rs)] # <<>>}
\* sheet.append_row(row)
append_row(rs, row) == Append(rs, row)
\* lines 59-60: write the header when the first row is empty
EnsureHeader(rs) ==
    IF (IF Len(rs) = 0 THEN <<>> ELSE rs[1]) = <<>>
    THEN append_row(rs, Header)
    ELSE rs

(***************************************************************************)
(* State                                                                    *)
(***************************************************************************)
VARIABLES
    peers,      \* the (chat, user) pairs that write to the bot
    texts,      \* the free texts they type
    sheet,      \* the module-level  sheet : "Worksheet" or "None"
    rows,       \* rows of the worksheet
    conv,       \* ConversationHandler state of each (chat, user) key
    user_data,  \* context.user_data of each user
    update,     \* the update handled last
    reply,      \* the reply_text sent for it
    effect,     \* the handler that ran, what it raised, its append_row call
    log,        \* history: inputs of the conversation since its /start
    attempts,   \* history: times the conversation reached the save step (line 132)
    sent,       \* history: texts the user sent as name and voucher type
    starts,     \* history: conversations started so far
    boots,      \* runs of the module-level set-up (lines 55-68) so far
    loop        \* the update whose append_row call the event loop is inside of

vars == <<peers, texts, sheet, rows, conv, user_data, update, reply, effect, log, attempts, sent, starts,
          boots, loop>>

NoUpdate == [session |-> <<"-", "-">>, text |-> <<>>]
Reply(kind, args) == [kind |-> kind, args |-> args]
NoReply == Reply("none", <<>>)
\* call: how the append_row call of the handler ended, row: the row passed to it
Effect(handler, raised, call, row) ==
    [handler |-> handler, raised |-> raised, call |-> call, row |-> row]
NoEffect == Effect("none", "none", "none", <<>>)

\* kind of an input, for the history
Kind(m) ==
    IF IsCmd(m, <<"s", "t", "a", "r", "t">>) THEN "start"
    ELSE IF IsCommand(m) THEN "command"
    ELSE IF FloatOf[m] # ValueError THEN "numeric"
    ELSE "text"

Init ==
    /\ peers \in Deployments
    /\ texts \in Vocabularies
    /\ sheet \in {"Worksheet", "None"}
    /\ \E r0 \in InitialSheets :
          rows = IF sheet = "Worksheet" THEN EnsureHeader(r0) ELSE r0
    /\ conv = [s \in Sessions |-> END]
    /\ user_data = [u \in Users |-> EmptyDict]
    /\ update = NoUpdate
    /\ reply = NoReply
    /\ effect = NoEffect
    /\ log = [s \in Sessions |-> <<>>]
    /\ attempts = [s \in Sessions |-> 0]
    /\ sent = [s \in Sessions |-> EmptyDict]
    /\ starts = 0
    /\ boots = 1
    /\ loop = NoUpdate

(***************************************************************************)
(* Dispatch: ConversationHandler.check_update for the handler built at      *)
(* lines 206-214 (allow_reentry is left at its default, False), followed    *)
(* by the /help CommandHandler of line 217 in the same group.               *)
(***************************************************************************)
\* allow_reentry=True
MutAllowReentry == TRUE

allow_reentry == FALSE

\* an application without the /help handler of line 217
MutNoHelp(m) == "none"

HelpOrNone(m) == IF IsCmd(m, <<"h", "e", "l", "p">>) THEN "help_command" ELSE "none"

StateHandler(st) ==
    IF st = NAME THEN "get_name"
    ELSE IF st = VOUCHER_TYPE THEN "get_voucher_type"
    ELSE "get_voucher_amount"

\* a ConversationHandler built without  fallbacks
MutHandlerNoFallbacks(st, m) ==
    IF (st = END \/ allow_reentry) /\ IsCmd(m, <<"s", "t", "a", "r", "t">>) THEN "start"
    ELSE IF st = END THEN HelpOrNone(m)
    ELSE IF IsText(m) /\ ~IsCommand(m) THEN StateHandler(st)
    ELSE HelpOrNone(m)

\* a dispatch that hands a text to get_name when no conversation runs
MutHandlerTextWhenIdle(st, m) ==
    IF (st = END \/ allow_reentry) /\ IsCmd(m, <<"s", "t", "a", "r", "t">>) THEN "start"
    ELSE IF st = END /\ IsText(m) /\ ~IsCommand(m) THEN "get_name"
    ELSE IF st = END THEN HelpOrNone(m)
    ELSE IF IsText(m) /\ ~IsCommand(m) THEN StateHandler(st)
    ELSE IF IsCmd(m, <<"c", "a", "n", "c", "e", "l">>) THEN "cancel"
    ELSE HelpOrNone(m)

\* a dispatch whose /cancel fallback is not tried in VOUCHER_AMOUNT
MutHandlerNoCancelInAmount(st, m) ==
    IF (st = END \/ allow_reentry) /\ IsCmd(m, <<"s", "t", "a", "r", "t">>) THEN "start"
    ELSE IF st = END THEN HelpOrNone(m)
    ELSE IF IsText(m) /\ ~IsCommand(m) THEN StateHandler(st)
    ELSE IF st # VOUCHER_AMOUNT /\ IsCmd(m, <<"c", "a", "n", "c", "e", "l">>) THEN "cancel"
    ELSE HelpOrNone(m)

Handler(st, m) ==
    IF (st = END \/ allow_reentry) /\ IsCmd(m, <<"s", "t", "a", "r", "t">>) THEN "start"
    ELSE IF st = END THEN HelpOrNone(m)
    ELSE IF IsText(m) /\ ~IsCommand(m) THEN StateHandler(st)
    ELSE IF IsCmd(m, <<"c", "a", "n", "c", "e", "l">>) THEN "cancel"
    ELSE HelpOrNone(m)

\* the dispatch and the input kinds of the model's messages, computed once
Dispatch == [st \in ConvStates, m \in Msgs |-> Handler(st, m)]
KindOf == [m \in Msgs |-> Kind(m)]

\* The log of a conversation follows its inputs as long as they are
\* /start, a text, a text, a numeric text; it is dropped on any other input.
Off == <<>>
OnPattern(l, m) ==
    \/ Len(l) \in {1, 2} /\ KindOf[m] \in {"text", "numeric"}
    \/ Len(l) = 3 /\ KindOf[m] = "numeric"
Logged(l, m, st) ==
    IF l # Off /\ OnPattern(l, m) THEN Append(l, <<KindOf[m], st>>) ELSE Off

Received(s, m) == update' = [session |-> s, text |-> m]

(***************************************************************************)
(* Handlers                                                                 *)
(***************************************************************************)
\* lines 71-78
start(s, m) ==
    /\ Dispatch[conv[s], m] = "start"
    /\ starts < MaxStarts
    /\ starts' = starts + 1
    /\ Received(s, m)
    /\ reply' = Reply("welcome", <<>>)
    /\ effect' = Effect("start", "none", "none", <<>>)
    /\ conv' = [conv EXCEPT ![s] = NAME]
    /\ log' = [log EXCEPT ![s] = <<<<"start", NAME>>>>]
    /\ attempts' = [attempts EXCEPT ![s] = 0]
    /\ sent' = [sent EXCEPT ![s] = EmptyDict]
    /\ UNCHANGED <<boots, peers, texts, sheet, rows, user_data>>

\* lines 81-103
get_name(s, m) ==
    /\ Dispatch[conv[s], m] = "get_name"
    /\ Received(s, m)
    /\ user_data' = [user_data EXCEPT ![UserOf(s)] = Put(@, "name", m)]
    /\ reply' = Reply("ask_voucher_type", <<m>>)
    /\ effect' = Effect("get_name", "none", "none", <<>>)
    /\ conv' = [conv EXCEPT ![s] = VOUCHER_TYPE]
    /\ log' = [log EXCEPT ![s] = Logged(@, m, VOUCHER_TYPE)]
    /\ sent' = [sent EXCEPT ![s] = Put(@, "name", m)]
    /\ UNCHANGED <<boots, peers, texts, sheet, rows, attempts, starts>>

\* lines 106-115
get_voucher_type(s, m) ==
    /\ Dispatch[conv[s], m] = "get_voucher_type"
    /\ Received(s, m)
    /\ user_data' = [user_data EXCEPT ![UserOf(s)] = Put(@, "voucher_type", m)]
    /\ reply' = Reply("ask_amount", <<>>)
    /\ effect' = Effect("get_voucher_type", "none", "none", <<>>)
    /\ conv' = [conv EXCEPT ![s] = VOUCHER_AMOUNT]
    /\ log' = [log EXCEPT ![s] = Logged(@, m, VOUCHER_AMOUNT)]
    /\ sent' = [sent EXCEPT ![s] = Put(@, "voucher_type", m)]
    /\ UNCHANGED <<boots, peers, texts, sheet, rows, attempts, starts>>

\* lines 118-164
get_voucher_amount(s, m) ==
    LET u      == UserOf(s)
        amount == FloatOf[m]
        ud     == Put(user_data[u], "amount", amount)
    IN
    /\ Dispatch[conv[s], m] = "get_voucher_amount"
    /\ Received(s, m)
    /\ UNCHANGED <<boots, peers, texts, sheet, starts>>
    /\ \/ \* float() raised ValueError: lines 159-164
          /\ amount = ValueError
          /\ reply' = Reply("invalid_amount", <<>>)
          /\ effect' = Effect("get_voucher_amount", "ValueError", "none", <<>>)
          /\ log' = [log EXCEPT ![s] = Logged(@, m, VOUCHER_AMOUNT)]
          /\ UNCHANGED <<rows, conv, user_data, attempts, sent>>
       \/ \* lines 128-129 raise KeyError, which  except ValueError  lets through
          /\ amount # ValueError
          /\ ~(Has(ud, "name") /\ Has(ud, "voucher_type"))
          /\ user_data' = [user_data EXCEPT ![u] = ud]
          /\ reply' = NoReply
          /\ effect' = Effect("get_voucher_amount", "KeyError", "none", <<>>)
          /\ log' = [log EXCEPT ![s] = Logged(@, m, VOUCHER_AMOUNT)]
          /\ UNCHANGED <<rows, conv, attempts, sent>>
       \/ \* lines 132-157
          /\ amount # ValueError
          /\ Has(ud, "name") /\ Has(ud, "voucher_type")
          /\ \E current_date \in Timestamps :
                LET row == <<current_date, ud["name"], ud["voucher_type"], amount>>
                IN  \/ \* append_row returned
                       /\ sheet # "None"
                       /\ rows' = append_row(rows, row)
                       /\ reply' = Reply("saved", row)
                       /\ effect' = Effect("get_voucher_amount", "none", "returned", row)
                       /\ attempts' = [attempts EXCEPT ![s] = @ + 1]
                    \/ \* append_row raised
                       /\ sheet # "None"
                       /\ reply' = Reply("save_error", <<>>)
                       /\ effect' = Effect("get_voucher_amount", "none", "raised", row)
                       /\ attempts' = [attempts EXCEPT ![s] = @ + 1]
                       /\ UNCHANGED rows
                    \/ \* sheet is None
                       /\ sheet = "None"
                       /\ reply' = Reply("not_configured", <<>>)
                       /\ effect' = Effect("get_voucher_amount", "none", "none", <<>>)
                       /\ attempts' = [attempts EXCEPT ![s] = @ + 1]
                       /\ UNCHANGED rows
          /\ user_data' = [user_data EXCEPT ![u] = Clear(ud)]
          /\ conv' = [conv EXCEPT ![s] = END]
          /\ log' = [log EXCEPT ![s] = Logged(@, m, END)]
          /\ sent' = [sent EXCEPT ![s] = EmptyDict]

\* lines 167-174
cancel(s, m) ==
    /\ Dispatch[conv[s], m] = "cancel"
    /\ Received(s, m)
    /\ reply' = Reply("cancelled", <<>>)
    /\ effect' = Effect("cancel", "none", "none", <<>>)
    /\ user_data' = [user_data EXCEPT ![UserOf(s)] = Clear(@)]
    /\ conv' = [conv EXCEPT ![s] = END]
    /\ log' = [log EXCEPT ![s] = Logged(@, m, END)]
    /\ sent' = [sent EXCEPT ![s] = EmptyDict]
    /\ UNCHANGED <<boots, peers, texts, sheet, rows, attempts, starts>>

\* lines 177-190
help_command(s, m) ==
    /\ Dispatch[conv[s], m] = "help_command"
    /\ Received(s, m)
    /\ reply' = Reply("help", <<>>)
    /\ effect' = Effect("help_command", "none", "none", <<>>)
    /\ log' = [log EXCEPT ![s] = Logged(@, m, conv[s])]
    /\ UNCHANGED <<boots, peers, texts, sheet, rows, conv, user_data, attempts, sent, starts>>

\* no handler of the application matches the update
unhandled(s, m) ==
    /\ Dispatch[conv[s], m] = "none"
    /\ Received(s, m)
    /\ reply' = NoReply
    /\ effect' = NoEffect
    /\ log' = [log EXCEPT ![s] = Logged(@, m, conv[s])]
    /\ UNCHANGED <<boots, peers, texts, sheet, rows, conv, user_data, attempts, sent, starts>>

Next ==
    \E s \in peers, m \in Commands \cup texts :
        \/ start(s, m) /\ UNCHANGED loop
        \/ get_name(s, m) /\ UNCHANGED loop
        \/ get_voucher_type(s, m) /\ UNCHANGED loop
        \/ get_voucher_amount(s, m) /\ UNCHANGED loop
        \/ cancel(s, m) /\ UNCHANGED loop
        \/ help_command(s, m) /\ UNCHANGED loop
        \/ unhandled(s, m) /\ UNCHANGED loop

Spec == Init /\ [][Next]_vars

(***************************************************************************)
(* The module-level set-up of lines 55-68, run once per start of the        *)
(* program, against a worksheet that outlives the program.                  *)
(***************************************************************************)
InitStartup ==
    /\ peers \in Deployments
    /\ texts \in Vocabularies
    /\ sheet = "None"
    /\ rows \in StoredSheets
    /\ conv = [s \in Sessions |-> END]
    /\ user_data = [u \in Users |-> EmptyDict]
    /\ update = NoUpdate
    /\ reply = NoReply
    /\ effect = NoEffect
    /\ log = [s \in Sessions |-> <<>>]
    /\ attempts = [s \in Sessions |-> 0]
    /\ sent = [s \in Sessions |-> EmptyDict]
    /\ starts = 0
    /\ boots = 0
    /\ loop = NoUpdate

Startup ==
    /\ boots < MaxBoots
    /\ boots' = boots + 1
    /\ \/ \* lines 56-61
          /\ sheet' = "Worksheet"
          /\ rows' = EnsureHeader(rows)
       \/ \* lines 62-68: set-up, row_values or append_row raised
          /\ sheet' = "None"
          /\ UNCHANGED rows
    /\ UNCHANGED <<peers, texts, conv, user_data, update, reply, effect, log, attempts, sent, starts, loop>>

SpecStartup == InitStartup /\ [][Startup]_vars

(***************************************************************************)
(* The event loop.  Application.builder().build() (line 203) leaves         *)
(* concurrent_updates off, so run_polling (line 221) awaits the handler of  *)
(* one update before it takes the next, and  sheet.append_row  (line 134)   *)
(* is a plain call, not awaited: the only thread of the program is inside   *)
(* it until it returns or raises.                                           *)
(***************************************************************************)
CallsAppend(s, m) ==
    /\ Dispatch[conv[s], m] = "get_voucher_amount"
    /\ FloatOf[m] # ValueError
    /\ Has(user_data[UserOf(s)], "name") /\ Has(user_data[UserOf(s)], "voucher_type")
    /\ sheet # "None"

\* lines 121-134, up to the call of append_row
BeginAppend(s, m) ==
    /\ loop = NoUpdate
    /\ CallsAppend(s, m)
    /\ loop' = [session |-> s, text |-> m]
    /\ user_data' = [user_data EXCEPT ![UserOf(s)] = Put(@, "amount", FloatOf[m])]
    /\ UNCHANGED <<peers, texts, sheet, rows, conv, update, reply, effect, log, attempts, sent, starts, boots>>

\* line 134 returns or raises, lines 135-157 follow
EndAppend(s, m) ==
    /\ loop = [session |-> s, text |-> m]
    /\ get_voucher_amount(s, m)
    /\ loop' = NoUpdate

\* a handler that does not get to line 134
Handle(s, m) ==
    /\ loop = NoUpdate
    /\ ~CallsAppend(s, m)
    /\ UNCHANGED loop

LoopNext ==
    \E s \in peers, m \in Commands \cup texts :
        \/ Handle(s, m) /\ start(s, m)
        \/ Handle(s, m) /\ get_name(s, m)
        \/ Handle(s, m) /\ get_voucher_type(s, m)
        \/ Handle(s, m) /\ get_voucher_amount(s, m)
        \/ Handle(s, m) /\ cancel(s, m)
        \/ Handle(s, m) /\ help_command(s, m)
        \/ Handle(s, m) /\ unhandled(s, m)
        \/ BeginAppend(s, m)
        \/ EndAppend(s, m)

SpecLoop == Init /\ [][LoopNext]_vars

TypeOK ==
    /\ sheet \in {"Worksheet", "None"}
    /\ \A s \in Sessions : conv[s] \in ConvStates /\ attempts[s] \in 0..1
    /\ \A u \in Users : DOMAIN user_data[u] \subseteq {"name", "voucher_type", "amount"}
    /\ Len(rows) <= MaxStarts + 1

(***************************************************************************)
(* Properties                                                               *)
(***************************************************************************)
\* the session and the user of the update handled last
Cur == update.session
CurUser == UserOf(update.session)
\* the states a conversation entered along its logged inputs
Trace(s) == [i \in 1..Len(log[s]) |-> log[s][i][2]]
LastRow(rs) == rs[Len(rs)]

\* C1: a conversation whose inputs were /start, a text, a text and a numeric
\* text went through NAME, VOUCHER_TYPE, VOUCHER_AMOUNT and END in that order
\* and reached the save step exactly once.
C1_OneAppendPerStart ==
    \A s \in Sessions :
        Len(log[s]) = 4 =>
            /\ Trace(s) = <<NAME, VOUCHER_TYPE, VOUCHER_AMOUNT, END>>
            /\ attempts[s] = 1

C3_CancelClears ==
    [][\A s \in Sessions :
          (update'.session = s /\ update'.text = CancelCmd /\ conv[s] \in Collecting) =>
              /\ conv' = [conv EXCEPT ![s] = END]
              /\ user_data'[UserOf(s)] = EmptyDict
              /\ reply'.kind = "cancelled"
              /\ rows' = rows
              /\ effect'.call = "none"
              /\ attempts'[s] = 0]_vars

\* a conversation cancelled
C3_Cancelled ==
    /\ update.text = CancelCmd
    /\ reply.kind = "cancelled"
    /\ conv[Cur] = END
    /\ user_data[CurUser] = EmptyDict

\* C4: in VOUCHER_AMOUNT a text that is no number (here "Xbox") is answered
\* by the re-prompt and changes nothing: state, user_data, rows and the
\* count of save steps stay as they were, however often it is repeated.
C4_InvalidAmountReprompts ==
    [][\A s \in Sessions :
          (update'.session = s /\ update'.text = TextXbox /\ conv[s] = VOUCHER_AMOUNT) =>
              /\ reply'.kind = "invalid_amount"
              /\ conv' = conv
              /\ user_data' = user_data
              /\ ~Has(user_data[UserOf(s)], "amount") => ~Has(user_data'[UserOf(s)], "amount")
              /\ rows' = rows
              /\ attempts' = attempts
              /\ effect'.call = "none"]_vars

\* a re-prompt in VOUCHER_AMOUNT with name and voucher type still held
C4_Reprompted ==
    /\ reply.kind = "invalid_amount"
    /\ update.text = TextXbox
    /\ conv[Cur] = VOUCHER_AMOUNT
    /\ Has(user_data[CurUser], "name") /\ Has(user_data[CurUser], "voucher_type")
    /\ ~Has(user_data[CurUser], "amount")

\* C5: when append_row raises, user_data is emptied all the same, the
\* conversation ends, and the save step was reached once: no row appears.
C5_AppendFailureEnds ==
    [][effect'.call = "raised" =>
          LET s == update'.session
          IN  /\ conv' = [conv EXCEPT ![s] = END]
              /\ user_data'[UserOf(s)] = EmptyDict
              /\ attempts'[s] = 1
              /\ rows' = rows
              /\ reply'.kind = "save_error"]_vars

\* an append_row that raised
C5_AppendFailed ==
    /\ effect.call = "raised"
    /\ reply.kind = "save_error"
    /\ conv[Cur] = END
    /\ user_data[CurUser] = EmptyDict

\* C6: the row appended is [timestamp, the text sent in NAME of this
\* conversation, the text sent in VOUCHER_TYPE of this conversation,
\* float(amount text)], and the confirmation echoes the same four values.
C6_RowIsWhatWasSent ==
    [][effect'.call = "returned" =>
          LET s == update'.session
          IN  /\ Len(rows') = Len(rows) + 1
              /\ LastRow(rows') = <<reply'.args[1], sent[s]["name"],
                                    sent[s]["voucher_type"], FloatOf[update'.text]>>
              /\ reply'.kind = "saved"
              /\ reply'.args = LastRow(rows')]_vars

\* C7 as stated: every amount passed to append_row is >= 0.
C7_AmountNonNegative ==
    effect.call # "none" => GeZero(effect.row[4])

\* C7 amended: the amount passed to append_row is the float the text stands
\* for, with its sign: >= 0 when the text has no minus sign in front (and is
\* not nan), and negative for "-5".
C7_AmountKeepsSign ==
    effect.call # "none" =>
        LET t == Strip(update.text)
            a == effect.row[4]
        IN  /\ a # ValueError
            /\ (t[1] # "-" /\ a # NaN) => GeZero(a)
            /\ update.text = Text2p5 => a = Finite(FALSE, 25, 10)
            /\ update.text = TextNeg5 => a = Finite(TRUE, 5, 1) /\ ~GeZero(a)

\* a negative amount written to the worksheet
C7_NegativeAppended ==
    /\ effect.call = "returned"
    /\ update.text = TextNeg5
    /\ LastRow(rows)[4] = Finite(TRUE, 5, 1)

\* C8: voucher_type is held only with name, amount only with both.
C8_FieldsInOrder ==
    \A u \in Users :
        /\ Has(user_data[u], "voucher_type") => Has(user_data[u], "name")
        /\ Has(user_data[u], "amount") =>
              Has(user_data[u], "name") /\ Has(user_data[u], "voucher_type")

\* C9: the user_data of a conversation that is not running is empty, and
\* so is the user_data of a conversation that has just been started.
C9_NoResidue ==
    \A s \in peers :
        /\ conv[s] = END => user_data[UserOf(s)] = EmptyDict
        /\ (effect.handler = "start" /\ Cur = s) => user_data[UserOf(s)] = EmptyDict

\* C10: with sheet = None the worksheet is never written, and every numeric
\* amount is answered by the "not configured" notice, with user_data
\* emptied and the conversation ended.
C10_NotConfigured ==
    sheet = "None" =>
        /\ rows \in InitialSheets
        /\ (effect.handler = "get_voucher_amount" /\ KindOf[update.text] = "numeric") =>
              /\ reply.kind = "not_configured"
              /\ conv[Cur] = END
              /\ user_data[CurUser] = EmptyDict

\* C11: a /help in any state is answered by the help text and changes
\* neither the conversation states nor user_data, and reaches no save step.
C11_HelpChangesNothing ==
    [][\A s \in Sessions :
          (update'.session = s /\ update'.text = HelpCmd) =>
              /\ reply'.kind = "help"
              /\ conv' = conv
              /\ user_data' = user_data
              /\ rows' = rows
              /\ attempts' = attempts
              /\ effect'.call = "none"]_vars

\* a /help answered in the middle of a conversation
C11_HelpWhileCollecting ==
    /\ update.text = HelpCmd
    /\ reply.kind = "help"
    /\ conv[Cur] = VOUCHER_AMOUNT
    /\ Has(user_data[CurUser], "name") /\ Has(user_data[CurUser], "voucher_type")

\* C13: a message of one user changes neither the conversation state nor
\* the user_data of another user, and every row passed to append_row holds
\* a name and a voucher type that the user whose amount triggered it typed
\* in a conversation still open, and the amount of that very message.
SessionsOf(u) == {t \in peers : t[2] = u}
TypedBy(u, k) == {sent[t][k] : t \in {x \in SessionsOf(u) : Has(sent[x], k)}}
C13_UsersAreIsolated ==
    [][/\ \A s \in peers :
             update'.session[2] # s[2] =>
                 /\ conv'[s] = conv[s]
                 /\ user_data'[s[2]] = user_data[s[2]]
                 /\ sent'[s] = sent[s]
       /\ effect'.call # "none" =>
             LET u == update'.session[2]
             IN  /\ effect'.row[2] \in TypedBy(u, "name")
                 /\ effect'.row[3] \in TypedBy(u, "voucher_type")
                 /\ effect'.row[4] = FloatOf[update'.text]]_vars

\* u2's row is written while u1 holds another name in an open conversation
C13_InterleavedAppend ==
    /\ effect.call = "returned"
    /\ CurUser = "u2"
    /\ conv[<<"c1", "u1">>] \in {VOUCHER_TYPE, VOUCHER_AMOUNT}
    /\ Has(user_data["u1"], "name")
    /\ user_data["u1"]["name"] # effect.row[2]

\* C15: a conversation that is over (saved, failed, not configured or
\* cancelled) takes the next /start and enters NAME, as long as the model
\* lets conversations start, and every running conversation can be ended by
\* a /cancel.
C15_ConvergesToStart ==
    \A s \in peers :
        /\ (conv[s] = END /\ starts < MaxStarts) =>
              ENABLED (start(s, StartCmd) /\ UNCHANGED loop /\ conv'[s] = NAME)
        /\ conv[s] \in Collecting =>
              ENABLED (cancel(s, CancelCmd) /\ UNCHANGED loop /\ conv'[s] = END)

\* a conversation ended by a failed append, with a /start still to come
C15_EndedByFailure ==
    /\ effect.call = "raised"
    /\ conv[Cur] = END
    /\ starts < MaxStarts

\* C16: a numeric amount is answered by exactly one notice: the
\* confirmation iff append_row returned, the failure notice iff append_row
\* raised, the "not configured" notice iff sheet is None.
C16_NoticeMatchesOutcome ==
    (effect.handler = "get_voucher_amount" /\ KindOf[update.text] = "numeric") =>
        /\ reply.kind \in {"saved", "save_error", "not_configured"}
        /\ reply.kind = "saved" <=> effect.call = "returned"
        /\ reply.kind = "save_error" <=> effect.call = "raised"
        /\ reply.kind = "not_configured" <=> sheet = "None"

\* C17: in VOUCHER_TYPE every text, on the keyboard or not, is stored as it
\* is under voucher_type and moves the conversation to VOUCHER_AMOUNT; in
\* NAME every text is stored as it is under name and moves it to VOUCHER_TYPE.
C17_TextsStoredVerbatim ==
    [][\A s \in Sessions :
          (update'.session = s /\ update'.text \in Texts) =>
              /\ conv[s] = VOUCHER_TYPE =>
                    /\ user_data'[UserOf(s)] =
                          [x \in DOMAIN user_data[UserOf(s)] \cup {"voucher_type"} |->
                              IF x = "voucher_type" THEN update'.text
                              ELSE user_data[UserOf(s)][x]]
                    /\ conv' = [conv EXCEPT ![s] = VOUCHER_AMOUNT]
              /\ conv[s] = NAME =>
                    /\ user_data'[UserOf(s)] =
                          [x \in DOMAIN user_data[UserOf(s)] \cup {"name"} |->
                              IF x = "name" THEN update'.text
                              ELSE user_data[UserOf(s)][x]]
                    /\ conv' = [conv EXCEPT ![s] = VOUCHER_TYPE]]_vars

\* a voucher type that is not on the keyboard, after a name that is
C17_FreeTextAccepted ==
    /\ effect.handler = "get_voucher_type"
    /\ conv[Cur] = VOUCHER_AMOUNT
    /\ update.text \notin Suggestions
    /\ Has(user_data[CurUser], "name") /\ Has(user_data[CurUser], "voucher_type")
    /\ user_data[CurUser]["voucher_type"] = update.text
    /\ user_data[CurUser]["name"] \in Suggestions

\* C18: whenever a conversation is in VOUCHER_AMOUNT its user_data holds
\* name and voucher_type, and the amount handler never raises KeyError.
C18_AmountStateHasFields ==
    /\ \A s \in peers :
          conv[s] = VOUCHER_AMOUNT =>
              Has(user_data[UserOf(s)], "name") /\ Has(user_data[UserOf(s)], "voucher_type")
    /\ effect.raised # "KeyError"

\* C19: the save step is reached, and append_row called, only by
\* get_voucher_amount on a numeric text in VOUCHER_AMOUNT; a text with no
\* conversation running and a command other than /start, /cancel and /help
\* change nothing and get no reply.
C19_OnlyAmountAppends ==
    [][\A s \in Sessions :
          update'.session = s =>
              /\ (attempts'[s] > attempts[s] \/ rows' # rows \/ effect'.call # "none") =>
                    /\ conv[s] = VOUCHER_AMOUNT
                    /\ KindOf[update'.text] = "numeric"
                    /\ effect'.handler = "get_voucher_amount"
              /\ ((update'.text \in Texts /\ conv[s] = END) \/ update'.text = OtherCmd) =>
                    /\ conv' = conv
                    /\ user_data' = user_data
                    /\ rows' = rows
                    /\ attempts' = attempts
                    /\ effect' = NoEffect
                    /\ reply' = NoReply]_vars

\* an unknown command dropped in the middle of a conversation
C19_UnknownCommandDropped ==
    /\ update.text = OtherCmd
    /\ conv[Cur] = VOUCHER_AMOUNT
    /\ Has(user_data[CurUser], "voucher_type")
    /\ reply = NoReply

\* C12: once the set-up has run and got its worksheet, a further run of it
\* writes nothing, whatever the worksheet held at first.
C12_SecondRunWritesNothing ==
    [][(boots >= 1 /\ sheet = "Worksheet" /\ boots' = boots + 1) => rows' = rows]_vars

\* C14: while append_row is in progress for one user, a text of another
\* user whose conversation waits for a name or a voucher type can be handled
\* and moves that conversation on.
C14_AppendDoesNotBlock ==
    loop # NoUpdate =>
        \A t \in peers :
            (UserOf(t) # UserOf(loop.session) /\ conv[t] \in {NAME, VOUCHER_TYPE}) =>
                ENABLED (LoopNext /\ update'.session = t /\ conv'[t] # conv[t])

====
